---- MODULE Spec2Model ----
(***************************************************************************)
(* Landscape generation of winchester_minecraft: core/generator.py         *)
(* (generate_advanced_landscape, add_biome_features) as called by          *)
(* ui/main_window.py.                                                      *)
(*                                                                         *)
(* Numbers.  Every quantity the program keeps in [0,1] (heights, the      *)
(* biome-selector value, sea level, water level, densities, random draws)  *)
(* and every noise value in [-1,1] is kept in hundredths, the resolution   *)
(* the sliders of MainWindow use (slider value / 100.0).  The grid is a    *)
(* sequence of rows, each a sequence of cells, as the nested lists of the  *)
(* source; Python index i is TLA+ index i + 1.                             *)
(***************************************************************************)
EXTENDS Integers, Sequences, FiniteSets, TLC

(* ------------------------------ bounds -------------------------------- *)

\* Largest width and height of a generated grid.
MaxDim == 2

\* Number of entries of the noise function's lookup table.
NumBuckets == 2

\* Most landscapes the handlers of the window generate.
MaxCalls == 4

(* ---------------------------- constants ------------------------------- *)

\* 1.0 in hundredths.
One == 100

\* Band cutoffs of the biome-selector value.
DesertBelow == 30
PlainsBelow == 60
ForestBelow == 80

\* Fixed octave parameters of the biome-selector field.
BiomeOctaves == 3
BiomePersistence == 50
BiomeLacunarity == 200

\* Values noise.pnoise2 may return, in hundredths of [-1,1].
NoiseVals == {-100, -40, 20, 60, 100}

\* The stream of values random.random() returns, in hundredths of [0,1).
DrawSeq == <<0, 10, 50, 99>>

VARIABLES
    noise_table,   \* the noise function: lookup table behind noise.pnoise2
    rng,           \* state of Python's global random generator
    last,          \* the latest call of generate_advanced_landscape
    feat,          \* the add_biome_features call made on last.ret, if any
    prev,          \* an earlier call of generate_advanced_landscape
    since,         \* calls of generate_advanced_landscape made after prev
    legacy,        \* the generation of the earlier draft, if it ran
    widget,        \* the fields of the LandscapeWidget
    window,        \* the fields of the MainWindow, its sliders and timer
    stack,         \* the handlers entered and not yet returned, oldest first
    done,          \* the latest handler body that ran to its end
    mat,           \* the latest call of create_biomes_from_landscape
    rec,           \* the latest construction of a Block, Entity or World
    world          \* create_and_log_world of the draft: position and World

vars ==
    <<noise_table, rng, last, feat, prev, since, legacy, widget, window,
      stack, done, mat, rec, world>>

\* The variables of the user interface, and those of the records.
uivars == <<widget, window, stack, done>>
recvars == <<mat, rec, world>>

(* ---------------------------- the sampler ----------------------------- *)

\* Python's range(n): empty when n <= 0.
range(n) == 0 .. (n - 1)

\* The base argument of both sampler calls.
MutSampleBase == rng
SampleBase == 0

\* The quotient n / d of a non-negative n by a non-zero d, as the fraction
\* <<numerator, denominator>> in lowest terms with a positive denominator:
\* equal quotients are equal pairs.
RECURSIVE Gcd(_, _)
Gcd(m, n) == IF n = 0 THEN m ELSE Gcd(n, m % n)
Over(n, d) ==
    LET m == IF d < 0 THEN -d ELSE d
        g == Gcd(n, m)
    IN  IF d < 0 THEN <<-(n \div g), m \div g>> ELSE <<n \div g, m \div g>>

\* noise.pnoise2: a fixed function of its arguments.  cx and cy are the
\* quotients x / scale and y / scale, as Over gives them.
pnoise2(cx, cy, octaves, persistence, lacunarity, repeatx, repeaty, base) ==
    noise_table[(cx[1] * 7 + cx[2] * 3 + cy[1] * 13 + cy[2] * 4 + octaves
                 + persistence + lacunarity + repeatx * 11 + repeaty * 17
                 + base) % NumBuckets]

\* (value + 1) / 2
MutNormalize(value) == value + One
Normalize(value) == (value + One) \div 2

(* ----------------------- generate_advanced_landscape ------------------ *)

\* Cell indices <<x, y>> a pass "for y in range(height): for x in
\* range(width)" visits.
MutLoopCells(width, height) ==
    {<<x, y>> : x \in range(width + 1), y \in range(height)}
LoopCells(width, height) ==
    {<<x, y>> : x \in range(width), y \in range(height)}

\* The freshly allocated landscape and biome_map.
NewLandscape(width, height) ==
    [y \in 1 .. Cardinality(range(height)) |->
        [x \in 1 .. Cardinality(range(width)) |->
            [height |-> 0, biome |-> "None", feature |-> "none"]]]

\* Cell indices <<x, y>> that exist in a grid.
GridCells(g) ==
    {<<x, y>> \in (0 .. MaxDim + 1) \X (0 .. MaxDim + 1) :
        y + 1 \in DOMAIN g /\ x + 1 \in DOMAIN g[y + 1]}

\* Pass 1: the height of cell (x, y).
HeightAt(a, x, y) ==
    Normalize(pnoise2(Over(x * a.scale_den, a.scale),
                      Over(y * a.scale_den, a.scale), a.octaves,
                      a.persistence, a.lacunarity, a.width, a.height,
                      SampleBase))

\* Pass 2: the biome-selector value of cell (x, y).
MutBiomeValueAt(a, x, y) ==
    Normalize(pnoise2(Over(x, a.biome_scale), Over(y, a.biome_scale),
                      a.octaves, a.persistence, a.lacunarity,
                      a.width, a.height, SampleBase))
BiomeValueAt(a, x, y) ==
    Normalize(pnoise2(Over(x, a.biome_scale), Over(y, a.biome_scale),
                      BiomeOctaves, BiomePersistence, BiomeLacunarity,
                      a.width, a.height, SampleBase))

\* The band of a biome-selector value.
MutBand(biome_value) ==
    IF biome_value <= DesertBelow THEN "desert"
    ELSE IF biome_value <= PlainsBelow THEN "plains"
    ELSE IF biome_value <= ForestBelow THEN "forest"
    ELSE "mountain"
Band(biome_value) ==
    IF biome_value < DesertBelow THEN "desert"
    ELSE IF biome_value < PlainsBelow THEN "plains"
    ELSE IF biome_value < ForestBelow THEN "forest"
    ELSE "mountain"

\* Pass 3: the biome of a cell.
MutClassify(height_value, biome_value, sea_level) ==
    IF biome_value < DesertBelow THEN "desert"
    ELSE IF height_value < sea_level THEN "ocean"
    ELSE Band(biome_value)
Classify(height_value, biome_value, sea_level) ==
    IF height_value < sea_level THEN "ocean"
    ELSE Band(biome_value)

\* The call generate_advanced_landscape(a.width, ..., a.biome_scale).  The
\* scale argument is the number a.scale / a.scale_den: the sliders give
\* whole numbers, the animation gives halves.
\*   ret      the returned landscape (<<>> when an exception is raised),
\*   err      the exception raised, "none" if the call returns,
\*   samples  the number of pnoise2 calls made,
\*   touched  the cell indices the passes read or wrote,
\*   bmap     the biome_map of pass 2 (local to the call).
generate_advanced_landscape(a) ==
    LET cells == LoopCells(a.width, a.height)
        fresh == NewLandscape(a.width, a.height)
        n     == Cardinality(cells)
    IN  IF cells # {} /\ a.scale = 0
        THEN [ret |-> <<>>, err |-> "ZeroDivisionError", samples |-> 0,
              touched |-> {}, bmap |-> <<>>]
        ELSE IF cells # {} /\ a.biome_scale = 0
        THEN [ret |-> <<>>, err |-> "ZeroDivisionError", samples |-> n,
              touched |-> cells, bmap |-> <<>>]
        ELSE IF ~ (cells \subseteq GridCells(fresh))
        THEN [ret |-> <<>>, err |-> "IndexError", samples |-> 0,
              touched |-> cells, bmap |-> <<>>]
        ELSE
        LET bmap == [y \in DOMAIN fresh |-> [x \in DOMAIN fresh[y] |->
                        IF <<x - 1, y - 1>> \in cells
                        THEN BiomeValueAt(a, x - 1, y - 1) ELSE 0]]
            grid == [y \in DOMAIN fresh |-> [x \in DOMAIN fresh[y] |->
                        IF <<x - 1, y - 1>> \in cells
                        THEN LET h == HeightAt(a, x - 1, y - 1)
                             IN  [height  |-> h,
                                  biome   |-> Classify(h, bmap[y][x],
                                                       a.sea_level),
                                  feature |-> "none"]
                        ELSE fresh[y][x]]]
        IN  [ret |-> grid, err |-> "none", samples |-> 2 * n,
             touched |-> cells, bmap |-> bmap]

(* --------------------------- add_biome_features ----------------------- *)

\* random.random() in generator state r, and the state after the draw.
Random(r) == DrawSeq[r + 1]
NextRng(r) == (r + 1) % Len(DrawSeq)

\* One iteration of the loop body on a cell, entered in generator state r:
\* the features assigned to landscape[y][x]["feature"], in order, and the
\* generator state afterwards.  "a and b" draws only when a holds; an elif
\* is reached only when the conditions before it failed.
MutFeatureStepIfs(biome_type, height_value, r, tree_density, water_level, cloud_density) ==
    LET tree  == biome_type = "forest" /\ Random(r) < tree_density
        r1    == IF biome_type = "forest" THEN NextRng(r) ELSE r
        water == height_value <= water_level
        cloud == Random(r1) < cloud_density
    IN  [writes |-> (IF tree THEN <<"tree">> ELSE <<>>)
                    \o (IF water THEN <<"water">> ELSE <<>>)
                    \o (IF cloud THEN <<"cloud">> ELSE <<>>),
         rng |-> NextRng(r1)]
MutFeatureStepWaterFirst(biome_type, height_value, r, tree_density, water_level, cloud_density) ==
    IF height_value <= water_level
    THEN [writes |-> <<"water">>, rng |-> r]
    ELSE IF biome_type = "forest" /\ Random(r) < tree_density
    THEN [writes |-> <<"tree">>, rng |-> NextRng(r)]
    ELSE LET r1 == IF biome_type = "forest" THEN NextRng(r) ELSE r
         IN  IF Random(r1) < cloud_density
             THEN [writes |-> <<"cloud">>, rng |-> NextRng(r1)]
             ELSE [writes |-> <<>>, rng |-> NextRng(r1)]
MutFeatureStepLeq(biome_type, height_value, r, tree_density, water_level, cloud_density) ==
    LET r1 == IF biome_type = "forest" THEN NextRng(r) ELSE r
    IN  IF biome_type = "forest" /\ Random(r) <= tree_density
        THEN [writes |-> <<"tree">>, rng |-> r1]
        ELSE IF height_value <= water_level
        THEN [writes |-> <<"water">>, rng |-> r1]
        ELSE IF Random(r1) <= cloud_density
        THEN [writes |-> <<"cloud">>, rng |-> NextRng(r1)]
        ELSE [writes |-> <<>>, rng |-> NextRng(r1)]
MutFeatureStepAnyBiome(biome_type, height_value, r, tree_density, water_level, cloud_density) ==
    IF Random(r) < tree_density
    THEN [writes |-> <<"tree">>, rng |-> NextRng(r)]
    ELSE IF height_value <= water_level
    THEN [writes |-> <<"water">>, rng |-> NextRng(r)]
    ELSE IF Random(NextRng(r)) < cloud_density
    THEN [writes |-> <<"cloud">>, rng |-> NextRng(NextRng(r))]
    ELSE [writes |-> <<>>, rng |-> NextRng(NextRng(r))]
FeatureStep(biome_type, height_value, r, tree_density, water_level, cloud_density) ==
    LET r1 == IF biome_type = "forest" THEN NextRng(r) ELSE r
    IN  IF biome_type = "forest" /\ Random(r) < tree_density
        THEN [writes |-> <<"tree">>, rng |-> r1]
        ELSE IF height_value <= water_level
        THEN [writes |-> <<"water">>, rng |-> r1]
        ELSE IF Random(r1) < cloud_density
        THEN [writes |-> <<"cloud">>, rng |-> NextRng(r1)]
        ELSE [writes |-> <<>>, rng |-> NextRng(r1)]

\* The cell a loop nest visits first among the cells still to visit: rows
\* outermost, columns innermost.
Before(c, d) == c[2] < d[2] \/ (c[2] = d[2] /\ c[1] < d[1])
FirstCell(todo) == CHOOSE c \in todo : \A d \in todo : ~ Before(d, c)

\* The loop of add_biome_features over the cells still to visit, entered in
\* generator state r with landscape g: the landscape and the generator
\* state after the loop and, per visited cell in visiting order, the
\* generator state on entry and the features assigned to it.
RECURSIVE FeatureLoop(_, _, _, _, _, _)
FeatureLoop(g, todo, r, tree_density, water_level, cloud_density) ==
    IF todo = {}
    THEN [grid |-> g, rng |-> r, steps |-> <<>>]
    ELSE LET c    == FirstCell(todo)
             cell == g[c[2] + 1][c[1] + 1]
             s    == FeatureStep(cell.biome, cell.height, r, tree_density,
                                 water_level, cloud_density)
             g1   == IF s.writes = <<>> THEN g
                     ELSE [g EXCEPT ![c[2] + 1][c[1] + 1].feature =
                                        s.writes[Len(s.writes)]]
             rest == FeatureLoop(g1, todo \ {c}, s.rng, tree_density,
                                 water_level, cloud_density)
         IN  [grid  |-> rest.grid,
              rng   |-> rest.rng,
              steps |-> <<[cell |-> c, at |-> r, writes |-> s.writes]>>
                        \o rest.steps]

\* The call add_biome_features(g, tree_density, water_level, cloud_density)
\* made in generator state r:
\*   ret      the returned landscape (g itself, updated in place),
\*   err      the exception raised, "none" if the call returns,
\*   steps    what the loop did per visited cell, in visiting order,
\*   touched  the cell indices the loop read or wrote,
\*   rng      the generator state after the call.
Mutadd_biome_features(g, r, tree_density, water_level, cloud_density) ==
    LET cells == IF Len(g) = 0 THEN {}
                 ELSE LoopCells(Len(g[1]), Len(g))
        loop  == FeatureLoop(g, cells, r, tree_density, water_level,
                             cloud_density)
        flood == [y \in DOMAIN loop.grid |-> [x \in DOMAIN loop.grid[y] |->
                     IF loop.grid[y][x].feature = "water"
                     THEN [loop.grid[y][x] EXCEPT !.height = water_level]
                     ELSE loop.grid[y][x]]]
    IN  [ret |-> flood, err |-> "none", steps |-> loop.steps,
         touched |-> cells, rng |-> loop.rng]
add_biome_features(g, r, tree_density, water_level, cloud_density) ==
    LET cells == IF Len(g) = 0 THEN {}
                 ELSE LoopCells(Len(g[1]), Len(g))
    IN  IF ~ (cells \subseteq GridCells(g))
        THEN [ret |-> <<>>, err |-> "IndexError", steps |-> <<>>,
              touched |-> cells, rng |-> r]
        ELSE
        LET loop == FeatureLoop(g, cells, r, tree_density, water_level,
                                cloud_density)
        IN  [ret |-> loop.grid, err |-> "none", steps |-> loop.steps,
             touched |-> cells, rng |-> loop.rng]

(* ------------- the earlier draft: minecraft_art.py overlay ------------ *)

\* Marks the draft writes into a height cell, in hundredths: -1, -2, -3.
TreeMark == -100
WaterMark == -200
CloudMark == -300

\* Threshold of the cloud map, and the scale it is generated with.
CloudMapAtLeast == 70
CloudMapScale == 20

\* generate_landscape(width, height, scale, octaves, persistence,
\* lacunarity): the height map alone.
generate_landscape(a) ==
    [y \in 1 .. Cardinality(range(a.height)) |->
        [x \in 1 .. Cardinality(range(a.width)) |->
            HeightAt(a, x - 1, y - 1)]]

\* The loop of add_trees over the cells still to visit.
RECURSIVE TreesLoop(_, _, _, _)
TreesLoop(g, todo, r, tree_density) ==
    IF todo = {}
    THEN [grid |-> g, rng |-> r]
    ELSE LET c  == FirstCell(todo)
             v  == g[c[2] + 1][c[1] + 1]
             r1 == IF v > 0 THEN NextRng(r) ELSE r
             g1 == IF v > 0 /\ Random(r) < tree_density
                   THEN [g EXCEPT ![c[2] + 1][c[1] + 1] = TreeMark]
                   ELSE g
         IN  TreesLoop(g1, todo \ {c}, r1, tree_density)

\* add_water: no draw is made.
LegacyWater(g, water_level) ==
    [y \in DOMAIN g |-> [x \in DOMAIN g[y] |->
        IF 0 < g[y][x] /\ g[y][x] <= water_level
        THEN WaterMark ELSE g[y][x]]]

\* The loop of add_clouds over the cells still to visit.
RECURSIVE CloudsLoop(_, _, _, _, _)
CloudsLoop(g, cloud_map, todo, r, cloud_density) ==
    IF todo = {}
    THEN [grid |-> g, rng |-> r]
    ELSE LET c   == FirstCell(todo)
             v   == g[c[2] + 1][c[1] + 1]
             hit == cloud_map[c[2] + 1][c[1] + 1] >= CloudMapAtLeast
             r1  == IF hit THEN NextRng(r) ELSE r
             g1  == IF hit /\ Random(r) < cloud_density /\ v >= 0
                    THEN [g EXCEPT ![c[2] + 1][c[1] + 1] = CloudMark]
                    ELSE g
         IN  CloudsLoop(g1, cloud_map, todo \ {c}, r1, cloud_density)

\* generate_and_display of the draft, entered in generator state r:
\* generate_landscape, add_trees, add_water, add_clouds.
\*   heights  the height map generated,
\*   trees    the landscape add_trees returns,
\*   ret      the landscape handed to the widget,
\*   rng      the generator state afterwards.
LegacyOverlay(a, r, tree_density, water_level, cloud_density) ==
    LET heights   == generate_landscape(a)
        cells     == IF Len(heights) = 0 THEN {}
                     ELSE LoopCells(Len(heights[1]), Len(heights))
        trees     == TreesLoop(heights, cells, r, tree_density)
        water     == LegacyWater(trees.grid, water_level)
        cloud_map == generate_landscape(
                         [a EXCEPT !.scale = CloudMapScale, !.scale_den = 1,
                                   !.octaves = 6,
                                   !.persistence = 50, !.lacunarity = 200])
        clouds    == CloudsLoop(water, cloud_map, cells, trees.rng,
                                cloud_density)
    IN  [heights |-> heights, trees |-> trees.grid, ret |-> clouds.grid,
         rng |-> clouds.rng]

(* --------------------------- LandscapeWidget -------------------------- *)

\* Python's None, and a value that is not None.
None == <<>>
Some(v) == <<v>>

\* int(n / d) for d > 0: the quotient truncated toward zero.
Trunc(n, d) == IF n >= 0 THEN n \div d ELSE -((-n) \div d)

\* zoom_level is kept in tenths; this is 1.0.
DefaultZoom == 10

\* The limits of wheelEvent, 0.2 and 5.0.
MinZoom == 2
MaxZoom == 50

\* The widget after LandscapeWidget.__init__(width, height).  The landscape
\* is None or a record of the grid and id, the identity of the list object
\* (the number of the generation that made it).  hover_info refers to a
\* cell dict of a grid, selected_block and biome_info were read off a grid:
\* each carries in "of" the id of that grid.  held tells whether a mouse
\* button is down: pressed and not yet released.
NewWidget(width, height) ==
    [width |-> width, height |-> height, landscape |-> None,
     zoom_level |-> DefaultZoom, pan_offset |-> <<0, 0>>,
     last_mouse_pos |-> None, selected_block |-> None,
     selected_entity |-> None, biome_info |-> None, hover_info |-> None,
     held |-> FALSE]

\* base_offset_x and base_offset_y, in quarters of a pixel:
\* (extent - cells * block_size) / 2 + pan with block_size = 5 * zoom_level.
BaseOffset(extent, cells, zoom_level, pan) ==
    2 * extent - cells * zoom_level + 4 * pan

\* block_x and block_y: int(base_offset + i * block_size).
BlockPos(base, i, zoom_level) == Trunc(base + i * 2 * zoom_level, 4)

\* The cell index under a mouse coordinate p:
\* int((p - base_offset) / block_size).
CellUnder(p, base, zoom_level) == Trunc(4 * p - base, 2 * zoom_level)

\* update_image: the exception it raises, "none" if it returns.  QRect is
\* not a name of the module, so the fillRect of the first cell that lies
\* inside the widget raises NameError; a cell outside is skipped.  No cell
\* is ever painted: the image stays white and is not kept in the state.
update_image(w) ==
    IF w.landscape = None THEN "none"
    ELSE LET g == w.landscape[1].grid
         IN  IF Len(g) = 0 THEN "IndexError"
             ELSE LET bx == BaseOffset(w.width, Len(g[1]), w.zoom_level,
                                       w.pan_offset[1])
                      by == BaseOffset(w.height, Len(g), w.zoom_level,
                                       w.pan_offset[2])
                      inside(c) ==
                          LET block_x == BlockPos(bx, c[1], w.zoom_level)
                              block_y == BlockPos(by, c[2], w.zoom_level)
                          IN  /\ 0 <= block_x /\ block_x < w.width
                              /\ 0 <= block_y /\ block_y < w.height
                  IN  IF \E c \in GridCells(g) : inside(c)
                      THEN "NameError" ELSE "none"

\* set_landscape(landscape): the widget afterwards and the exception raised.
\* The assignment to self.landscape comes before update_image.
set_landscape(w, landscape) ==
    LET w1 == [w EXCEPT !.landscape = Some(landscape)]
    IN  [widget |-> w1, err |-> update_image(w1)]

\* The cell under the position pos of the mouse, as both mouse handlers
\* compute it, or None when the position is outside the grid.
Under(w, pos) ==
    LET g  == w.landscape[1].grid
        x  == CellUnder(pos[1], BaseOffset(w.width, Len(g[1]), w.zoom_level,
                                           w.pan_offset[1]), w.zoom_level)
        y  == CellUnder(pos[2], BaseOffset(w.height, Len(g), w.zoom_level,
                                           w.pan_offset[2]), w.zoom_level)
    IN  IF 0 <= x /\ x < Len(g[1]) /\ 0 <= y /\ y < Len(g)
        THEN Some(<<x, y>>) ELSE None

\* mousePressEvent at position pos.  With no landscape, len(self.landscape[0])
\* raises TypeError after last_mouse_pos is set.
mousePressEvent(w, pos) ==
    LET w1 == [w EXCEPT !.last_mouse_pos = Some(pos), !.held = TRUE]
    IN  IF w.landscape = None
        THEN [widget |-> w1, err |-> "TypeError"]
        ELSE LET c  == Under(w1, pos)
                 l  == w.landscape[1]
             IN  IF c # None
                 THEN [widget |->
                          [w1 EXCEPT
                              !.selected_block =
                                  Some([of |-> l.id, at |-> c[1]]),
                              !.biome_info =
                                  Some([of |-> l.id,
                                        value |-> l.grid[c[1][2] + 1]
                                                        [c[1][1] + 1].biome])],
                       err |-> "none"]
                 ELSE [widget |-> [w1 EXCEPT !.selected_block = None,
                                             !.biome_info = None],
                       err |-> "none"]

\* mouseMoveEvent at position pos.  "if self.last_mouse_pos" is false for
\* None and for the null point (0, 0).  While dragging the pan offset moves
\* by the distance from the last position and update_image runs; what it
\* raises ends the handler.
mouseMoveEvent(w, pos) ==
    LET dragging == w.last_mouse_pos # None /\ w.last_mouse_pos[1] # <<0, 0>>
        w1 == IF dragging
              THEN [w EXCEPT
                       !.pan_offset =
                           <<w.pan_offset[1] + pos[1] - w.last_mouse_pos[1][1],
                             w.pan_offset[2] + pos[2] - w.last_mouse_pos[1][2]>>,
                       !.last_mouse_pos = Some(pos)]
              ELSE w
        err1 == IF dragging THEN update_image(w1) ELSE "none"
    IN  IF err1 # "none" THEN [widget |-> w1, err |-> err1]
        ELSE IF w1.landscape = None THEN [widget |-> w1, err |-> "TypeError"]
        ELSE LET c == Under(w1, pos)
                 l == w1.landscape[1]
             IN  IF c # None
                 THEN [widget |->
                          [w1 EXCEPT
                              !.hover_info =
                                  Some([of |-> l.id, at |-> c[1],
                                        data |-> l.grid[c[1][2] + 1]
                                                       [c[1][1] + 1]])],
                       err |-> "none"]
                 ELSE [widget |-> [w1 EXCEPT !.hover_info = None],
                       err |-> "none"]

\* mouseReleaseEvent.
MutmouseReleaseEvent(w) == [w EXCEPT !.held = FALSE]
mouseReleaseEvent(w) == [w EXCEPT !.last_mouse_pos = None, !.held = FALSE]

\* wheelEvent with the wheel turned forward (zoom_in) or not: zoom_level
\* moves by 0.1 inside its limits, then update_image runs.
MutwheelEvent(w, zoom_in) ==
    LET w1 == [w EXCEPT !.zoom_level = IF zoom_in THEN @ + 1 ELSE @ - 1]
    IN  [widget |-> w1, err |-> update_image(w1)]
wheelEvent(w, zoom_in) ==
    LET w1 == [w EXCEPT !.zoom_level =
                            IF zoom_in
                            THEN (IF @ + 1 < MaxZoom THEN @ + 1 ELSE MaxZoom)
                            ELSE (IF @ - 1 > MinZoom THEN @ - 1 ELSE MinZoom)]
    IN  [widget |-> w1, err |-> update_image(w1)]

\* reset_view: zoom and pan go back to their defaults, then update_image
\* runs.
Mutreset_view(w) ==
    LET w1 == [w EXCEPT !.zoom_level = DefaultZoom, !.pan_offset = <<0, 0>>,
                        !.selected_block = None]
    IN  [widget |-> w1, err |-> update_image(w1)]
reset_view(w) ==
    LET w1 == [w EXCEPT !.zoom_level = DefaultZoom, !.pan_offset = <<0, 0>>]
    IN  [widget |-> w1, err |-> update_image(w1)]

(* ------------------------------ MainWindow ---------------------------- *)

\* The values of the nine parameter sliders after init_controls: setValue
\* after setRange keeps a value inside the range, so the lacunarity slider
\* (range 1..100) holds 100 for the default lacunarity 2.0.
NewSliders ==
    [scale |-> 50, octaves |-> 6, persistence |-> 50, lacunarity |-> 100,
     tree_density |-> 10, water_level |-> 30, cloud_density |-> 20,
     biome_scale |-> 200, sea_level |-> 50]

\* The window after the assignments of MainWindow.__init__(width, height)
\* and init_ui.  calls counts the landscapes the handlers have generated,
\* ticks the timeouts of the timer since it was last started.
NewWindow(width, height) ==
    [width |-> width, height |-> height, scale |-> 50, octaves |-> 6,
     persistence |-> 50, lacunarity |-> 200, tree_density |-> 10,
     water_level |-> 30, cloud_density |-> 20, animation_speed |-> 50,
     biome_scale |-> 200, sea_level |-> 50, timer_active |-> FALSE,
     timer_interval |-> 0, animation_running |-> FALSE,
     animation_step |-> 0, current_world |-> None, sliders |-> NewSliders,
     calls |-> 0, ticks |-> 0]

\* update_parameters, before its call of generate_and_display: every
\* parameter is read from its slider.
update_parameters(win) ==
    [win EXCEPT !.scale = win.sliders.scale,
                !.octaves = win.sliders.octaves,
                !.persistence = win.sliders.persistence,
                !.lacunarity = win.sliders.lacunarity,
                !.tree_density = win.sliders.tree_density,
                !.water_level = win.sliders.water_level,
                !.cloud_density = win.sliders.cloud_density,
                !.biome_scale = win.sliders.biome_scale,
                !.sea_level = win.sliders.sea_level]

\* The arguments the handlers pass to generate_advanced_landscape, with
\* the scale scale / scale_den.
WindowArgs(win, scale, scale_den) ==
    [width |-> win.width, height |-> win.height, scale |-> scale,
     scale_den |-> scale_den, octaves |-> win.octaves,
     persistence |-> win.persistence, lacunarity |-> win.lacunarity,
     sea_level |-> win.sea_level, biome_scale |-> win.biome_scale]

\* The cells "for y in range(height): for x in range(width)" visits, in
\* visiting order.
LoopOrder(width, height) ==
    LET w == Cardinality(range(width))
    IN  [i \in 1 .. w * Cardinality(range(height)) |->
            <<(i - 1) % w, (i - 1) \div w>>]

\* The assignments landscape[y][x][field] = ... of one pass over the cells.
PassWrites(order, field) ==
    [i \in DOMAIN order |-> [cell |-> order[i], field |-> field]]

\* The assignments of add_biome_features, from what its loop did per cell.
RECURSIVE FeatureWrites(_)
FeatureWrites(steps) ==
    IF steps = <<>> THEN <<>>
    ELSE PassWrites([i \in DOMAIN steps[1].writes |-> steps[1].cell],
                    "feature")
         \o FeatureWrites(Tail(steps))

\* The assignments to the cells of the landscape the two calls of a
\* handler make, in order: pass 1 and pass 3 of
\* generate_advanced_landscape (pass 2 fills the local biome_map), then,
\* on the landscape returned, the loop of add_biome_features.
MutLandscapeWrites(a, steps) ==
    PassWrites(LoopOrder(a.width, a.height), "height")
    \o FeatureWrites(steps)
    \o PassWrites(LoopOrder(a.width, a.height), "biome")
LandscapeWrites(a, steps) ==
    PassWrites(LoopOrder(a.width, a.height), "height")
    \o PassWrites(LoopOrder(a.width, a.height), "biome")
    \o FeatureWrites(steps)

\* The two calls that open the try block of every handler, entered in
\* generator state r: generate_advanced_landscape, then add_biome_features
\* on its result.  writes are the assignments to cells made up to the
\* return of the second call.
Landscape(win, a, r) ==
    LET gen == generate_advanced_landscape(a)
    IN  IF gen.err # "none"
        THEN [ret |-> <<>>, err |-> gen.err, rng |-> r, writes |-> <<>>]
        ELSE LET ov == add_biome_features(gen.ret, r, win.tree_density,
                                          win.water_level, win.cloud_density)
             IN  [ret |-> ov.ret, err |-> ov.err, rng |-> ov.rng,
                  writes |-> LandscapeWrites(a, ov.steps)]

\* The rest of the try block of generate_and_display and of
\* animate_landscape, l being what Landscape gave: the landscape is handed
\* to the widget.
Display(win, wid, l) ==
    IF l.err # "none"
    THEN [widget |-> wid, err |-> l.err]
    ELSE set_landscape(wid, [id |-> win.calls + 1, grid |-> l.ret])

\* toggle_animation: a running animation is stopped; a stopped one is
\* started from step 0, the timer with the interval animation_speed.
Muttoggle_animation(win) ==
    IF win.animation_running
    THEN [win EXCEPT !.timer_active = FALSE, !.animation_running = FALSE]
    ELSE [win EXCEPT !.ticks = 0, !.timer_active = TRUE,
                     !.timer_interval = win.animation_speed,
                     !.animation_running = TRUE]
toggle_animation(win) ==
    IF win.animation_running
    THEN [win EXCEPT !.timer_active = FALSE, !.animation_running = FALSE]
    ELSE [win EXCEPT !.animation_step = 0, !.ticks = 0,
                     !.timer_active = TRUE,
                     !.timer_interval = win.animation_speed,
                     !.animation_running = TRUE]

\* The except block of animate_landscape before its message box: the timer
\* is stopped and the flag cleared.
MutStopAnimationTimerOnly(win) == [win EXCEPT !.timer_active = FALSE]
MutStopAnimationFlagOnly(win) == [win EXCEPT !.animation_running = FALSE]
StopAnimation(win) ==
    [win EXCEPT !.timer_active = FALSE, !.animation_running = FALSE]

\* update_animation_speed with the speed slider at value: setInterval on a
\* running timer changes its interval and leaves it running.
Mutupdate_animation_speed(win, value) ==
    [win EXCEPT !.animation_speed = value]
update_animation_speed(win, value) ==
    [win EXCEPT !.animation_speed = value,
                !.timer_interval = IF win.animation_running THEN value ELSE @]

\* The cell indices of a grid in the order "for y: for x" visits them.
CellOrder(g) ==
    IF Len(g) = 0 THEN <<>>
    ELSE [i \in 1 .. Len(g) * Len(g[1]) |->
             <<(i - 1) % Len(g[1]), (i - 1) \div Len(g[1])>>]

\* The keys of biome_positions in insertion order: the biome labels of the
\* grid, each once, in the order of first occurrence.
RECURSIVE KeysFrom(_, _, _)
KeysFrom(g, order, keys) ==
    IF order = <<>> THEN keys
    ELSE LET b == g[order[1][2] + 1][order[1][1] + 1].biome
         IN  KeysFrom(g, Tail(order),
                      IF \E i \in DOMAIN keys : keys[i] = b
                      THEN keys ELSE Append(keys, b))

\* biome_positions[biome_type]: the positions of the cells of one label.
PositionsOf(g, biome_type) ==
    SelectSeq(CellOrder(g),
              LAMBDA c : g[c[2] + 1][c[1] + 1].biome = biome_type)

\* create_biomes_from_landscape(landscape).  The grouping loop fills
\* biome_positions.  The loop over its items then fails in its first
\* iteration: create_block (reached first for PLAINS and DESERT) and
\* create_biome (reached first for every other label) are not names of
\* the module, nor are random, create_entity and create_world, so the
\* first of them evaluated raises NameError.
\*   keys       the keys of biome_positions,
\*   positions  biome_positions[key] for each key, in the order of keys,
\*   ret        the returned list of biomes (<<>> when an exception is
\*              raised),
\*   err        the exception raised, "none" if the call returns,
\*   name       the name whose evaluation raised.
create_biomes_from_landscape(landscape) ==
    LET keys == KeysFrom(landscape, CellOrder(landscape), <<>>)
        positions == [i \in DOMAIN keys |-> PositionsOf(landscape, keys[i])]
    IN  IF keys = <<>>
        THEN [keys |-> keys, positions |-> positions, ret |-> <<>>,
              err |-> "none", name |-> "none"]
        ELSE [keys |-> keys, positions |-> positions, ret |-> <<>>,
              err |-> "NameError",
              name |-> IF keys[1] \in {"plains", "desert"}
                       THEN "create_block" ELSE "create_biome"]

\* The try block of create_and_log_world: the World it builds, None when
\* an exception is raised first.  When create_biomes_from_landscape
\* returns, create_world is the next unbound name evaluated.
\* l is what Landscape gave for the two calls before.
\*   grid    the landscape generated (<<>> when generation raised),
\*   biomes  the call of create_biomes_from_landscape.
WorldOf(l) ==
    IF l.err # "none"
    THEN [world |-> None, err |-> l.err, grid |-> <<>>,
          biomes |-> create_biomes_from_landscape(<<>>)]
    ELSE [world |-> None, err |-> "NameError", grid |-> l.ret,
          biomes |-> create_biomes_from_landscape(l.ret)]

(* --------------------- Block, Entity, Biome, World -------------------- *)

\* Block(x=x, y=y, z=z, type=block_type): the record, or the ValueError
\* of validate_coordinates.
Block(x, y, z, block_type) ==
    IF x < 0 \/ y < 0 \/ z < 0
    THEN [err |-> "ValueError", value |-> None]
    ELSE [err |-> "none",
          value |-> Some([x |-> x, y |-> y, z |-> z, type |-> block_type])]

\* What a helper that wraps a construction in "try ... except ValueError"
\* returns and raises: None in place of the ValueError.
Caught(made) ==
    IF made.err = "ValueError"
    THEN [ret |-> None, err |-> "none"]
    ELSE [ret |-> made.value, err |-> made.err]

\* create_block: the Block, or None when its construction raised ValueError.
create_block(x, y, z, block_type) == Caught(Block(x, y, z, block_type))

\* Entity(x=x, y=y, z=z, type=entity_type, health=health): the record, or
\* the ValueError of validate_coordinates or validate_health.
MutEntity(x, y, z, entity_type, health) ==
    IF x < 0 \/ y < 0 \/ z < 0
    THEN [err |-> "ValueError", value |-> None]
    ELSE [err |-> "none",
          value |-> Some([x |-> x, y |-> y, z |-> z, type |-> entity_type,
                          health |-> health])]
Entity(x, y, z, entity_type, health) ==
    IF x < 0 \/ y < 0 \/ z < 0 \/ health < 0
    THEN [err |-> "ValueError", value |-> None]
    ELSE [err |-> "none",
          value |-> Some([x |-> x, y |-> y, z |-> z, type |-> entity_type,
                          health |-> health])]

\* create_entity: the Entity, or None when its construction raised
\* ValueError.
create_entity(x, y, z, entity_type, health) ==
    Caught(Entity(x, y, z, entity_type, health))

\* Biome(name=name, type=biome_type, blocks=blocks, entities=entities) of
\* the draft: the record, or the ValueError of a validator.  A list holding
\* None is no list of Block or Entity.
Biome(name, biome_type, blocks, entities) ==
    IF \/ name = ""
       \/ blocks = <<>> \/ \E i \in DOMAIN blocks : blocks[i] = None
       \/ entities = <<>> \/ \E i \in DOMAIN entities : entities[i] = None
    THEN [err |-> "ValueError", value |-> None]
    ELSE [err |-> "none",
          value |-> Some([name |-> name, type |-> biome_type,
                          blocks |-> blocks, entities |-> entities])]

\* create_biome of the draft.
create_biome(name, biome_type, blocks, entities) ==
    Caught(Biome(name, biome_type, blocks, entities))

\* Latest time of day, and the weather types.
MaxTime == 24000
Weathers == {"clear", "rain", "thunder"}

\* World(name=name, biomes=biomes, time=time, weather=weather): the record,
\* or the ValueError of a validator.  A list holding None is no list of
\* Biome.
MutWorld(name, biomes, time, weather) ==
    IF \/ name = ""
       \/ biomes = <<>> \/ \E i \in DOMAIN biomes : biomes[i] = None
       \/ time < 0
       \/ weather \notin Weathers
    THEN [err |-> "ValueError", value |-> None]
    ELSE [err |-> "none",
          value |-> Some([name |-> name,
                          biomes |-> biomes, time |-> time,
                          weather |-> weather])]
World(name, biomes, time, weather) ==
    IF \/ name = ""
       \/ biomes = <<>> \/ \E i \in DOMAIN biomes : biomes[i] = None
       \/ time < 0 \/ time > MaxTime
       \/ weather \notin Weathers
    THEN [err |-> "ValueError", value |-> None]
    ELSE [err |-> "none",
          value |-> Some([name |-> name,
                          biomes |-> biomes, time |-> time,
                          weather |-> weather])]

\* create_world(name, biomes): time and weather take their defaults.
create_world(name, biomes) == Caught(World(name, biomes, 0, "clear"))

\* The biomes create_and_log_world of the draft builds.
BiomeOf(name, biome_type, blocks, entities) ==
    create_biome(name, biome_type, blocks, entities).ret
PlainsBiome ==
    BiomeOf("Sunny Plains", "plains",
        <<create_block(0, 0, 0, "grass").ret,
          create_block(0, 1, 0, "dirt").ret,
          create_block(0, 2, 0, "stone").ret,
          create_block(1, 0, 0, "sand").ret,
          create_block(1, 1, 0, "sand").ret, create_block(1, 2, 0, "sand").ret,
          create_block(1, 2, 1, "gold_ore").ret>>,
        <<create_entity(5, 0, 5, "player", 100).ret,
          create_entity(10, 0, 10, "creeper", 20).ret,
          create_entity(15, 0, 15, "zombie", 30).ret,
          create_entity(8, 3, 2, "villager", 4).ret>>)
DesertBiome ==
    BiomeOf("Arid Desert", "desert",
        <<create_block(0, 0, 0, "sand").ret, create_block(0, 1, 0, "sand").ret,
          create_block(0, 2, 0, "sand").ret,
          create_block(1, 2, 1, "diamond_ore").ret>>,
        <<create_entity(5, 0, 5, "skeleton", 25).ret,
          create_entity(10, 0, 10, "spider", 15).ret>>)
ForestBiome ==
    BiomeOf("Dense Forest", "forest",
        <<create_block(0, 0, 0, "grass").ret,
          create_block(0, 1, 0, "dirt").ret,
          create_block(0, 2, 0, "wood").ret,
          create_block(0, 3, 0, "leaves").ret>>,
        <<create_entity(5, 0, 5, "enderman", 40).ret,
          create_entity(10, 0, 10, "villager", 20).ret>>)

\* The time and the weather create_and_log_world assigns.
NightTime == 18000
NewWeather == "rain"

\* One statement of create_and_log_world of the draft on the World it
\* holds: w.pc is the statement reached, w.value the World or None.  An
\* attribute of None raises AttributeError, which the handler catches.
DraftStatement(w) ==
    CASE w.pc = "start" ->
            [pc |-> "created",
             value |-> create_world("My Awesome World",
                                    <<PlainsBiome, DesertBiome>>).ret]
      [] w.pc \in {"created", "appended", "timed"} /\ w.value = None ->
            [pc |-> "failed", value |-> None]
      [] w.pc = "created" ->
            [pc |-> "appended",
             value |-> Some([w.value[1] EXCEPT
                                !.biomes = Append(@, ForestBiome)])]
      [] w.pc = "appended" ->
            [pc |-> "timed",
             value |-> Some([w.value[1] EXCEPT !.time = NightTime])]
      [] w.pc = "timed" ->
            [pc |-> "logged",
             value |-> Some([w.value[1] EXCEPT !.weather = NewWeather])]
      [] OTHER -> [pc |-> "start", value |-> None]

\* The records of the calls, before any call.  The record of a handler
\* holds the exception that ended its body, whether the handler caught it,
\* the landscape of the widget before, the arguments it passed to
\* generate_advanced_landscape, the assignments to cells its calls made,
\* for animate_landscape the number of the timeout that entered it, and
\* the pan offset and the state of the mouse button before.
NoDone ==
    [handler |-> "none", err |-> "none", caught |-> TRUE, before |-> None,
     args |-> None, writes |-> <<>>, tick |-> 0, pan |-> <<0, 0>>,
     held |-> FALSE]
NoMat ==
    [called |-> FALSE, grid |-> <<>>, keys |-> <<>>, positions |-> <<>>,
     ret |-> <<>>, err |-> "none", name |-> "none", world |-> None]
NoRec == [op |-> "none", args |-> <<>>, ret |-> None, err |-> "none"]

\* A handler entered and not yet returned: at is "try" while its try block
\* runs, "dialog" while its message box is open.
Frame(handler, at) == [handler |-> handler, at |-> at]

\* MainWindow.__init__(width, height) at its last statement, the call of
\* generate_and_display.
InitWindow(Widths, Heights) ==
    /\ \E w \in Widths, h \in Heights :
        /\ widget = NewWidget(w, h)
        /\ window = NewWindow(w, h)
    /\ stack = <<Frame("generate_and_display", "try")>>
    /\ done = NoDone

\* No record has been built.
InitRecords ==
    /\ mat = NoMat
    /\ rec = NoRec
    /\ world = [pc |-> "start", value |-> None]

\* The variables the generator does not use, in a window of one cell.
InitRest == InitWindow({1}, {1}) /\ InitRecords

(* ------------------------------ the callers --------------------------- *)

\* Arguments in the ranges the sliders of MainWindow allow.
Dims == 1 .. MaxDim
ValidArgs ==
    [width : Dims, height : Dims, scale : {10, 25}, scale_den : {1},
     octaves : {1, 6},
     persistence : {50}, lacunarity : {200}, sea_level : {30, 60},
     biome_scale : {50, 125}]
ValidDensities == {0, 50}
ValidWaterLevels == {30, 60}

\* The moves of a slider: the slider and its new value.
SliderMoves == {<<"scale", 10>>, <<"sea_level", 30>>}

\* Positions of the animation speed slider (range 1..100): the initial
\* one and a faster one.
SpeedValues == {20, 50}

\* Arguments for landscapes with every biome label.
WorldArgs ==
    [width : Dims, height : Dims, scale : {10, 25}, scale_den : {1},
     octaves : {6}, persistence : {50}, lacunarity : {200},
     sea_level : {30, 60}, biome_scale : {125}]

\* A narrower set of arguments, for comparing calls with one another.
DetArgs ==
    [width : Dims, height : Dims, scale : {10, 25}, scale_den : {1},
     octaves : {6},
     persistence : {50}, lacunarity : {200}, sea_level : {60},
     biome_scale : {125}]

\* Arguments a direct caller of the two functions may pass, malformed
\* ones included.
RawArgs ==
    [width : -1 .. 1, height : -1 .. 1, scale : {-10, 0, 10}, scale_den : {1},
     octaves : {6},
     persistence : {50}, lacunarity : {200}, sea_level : {60},
     biome_scale : {-50, 0, 50}]
RawDensities == {-10, 50, 150}

NoArgs ==
    [width |-> 0, height |-> 0, scale |-> 0, scale_den |-> 1, octaves |-> 0,
     persistence |-> 0, lacunarity |-> 0, sea_level |-> 0,
     biome_scale |-> 0]
NoCall ==
    [called |-> FALSE, args |-> NoArgs, ret |-> <<>>, err |-> "none",
     samples |-> 0, touched |-> {}, bmap |-> <<>>]
NoFeat ==
    [called |-> FALSE, tree_density |-> 0, water_level |-> 0,
     cloud_density |-> 0, ret |-> <<>>, err |-> "none", steps |-> <<>>,
     touched |-> {}]

NoLegacy ==
    [called |-> FALSE, args |-> NoArgs, tree_density |-> 0,
     water_level |-> 0, cloud_density |-> 0, heights |-> <<>>,
     trees |-> <<>>, ret |-> <<>>]

Init ==
    /\ noise_table \in [range(NumBuckets) -> NoiseVals]
    /\ rng \in range(Len(DrawSeq))
    /\ last = NoCall
    /\ feat = NoFeat
    /\ prev = NoCall
    /\ since = 0
    /\ legacy = NoLegacy
    /\ InitRest

\* A call of generate_advanced_landscape with arguments from ArgSet.
Generate(ArgSet) ==
    \E a \in ArgSet :
        \E res \in {generate_advanced_landscape(a)} :
            /\ last' = [called |-> TRUE, args |-> a, ret |-> res.ret,
                        err |-> res.err, samples |-> res.samples,
                        touched |-> res.touched, bmap |-> res.bmap]
            /\ feat' = NoFeat
            /\ since' = IF prev.called /\ since < 2 THEN since + 1 ELSE since
            /\ UNCHANGED <<noise_table, rng, prev, legacy, uivars, recvars>>

\* The call of add_biome_features on the landscape just generated, as
\* every caller does once per landscape.
AddFeatures(Densities, WaterLevels) ==
    /\ last.called
    /\ last.err = "none"
    /\ ~ feat.called
    /\ \E td \in Densities, wl \in WaterLevels, cd \in Densities :
        \E res \in {add_biome_features(last.ret, rng, td, wl, cd)} :
            /\ feat' = [called |-> TRUE, tree_density |-> td,
                        water_level |-> wl, cloud_density |-> cd,
                        ret |-> res.ret, err |-> res.err,
                        steps |-> res.steps, touched |-> res.touched]
            /\ rng' = res.rng
            /\ UNCHANGED <<noise_table, last, prev, since, legacy, uivars,
                           recvars>>

\* Keep the latest call of generate_advanced_landscape for comparison with
\* later ones.
Remember ==
    /\ last.called
    /\ prev # last \/ since # 0
    /\ prev' = last
    /\ since' = 0
    /\ UNCHANGED <<noise_table, rng, last, feat, legacy, uivars, recvars>>

\* generate_and_display of the earlier draft, with slider-range values.
LegacyGenerate(Densities, WaterLevels) ==
    /\ ~ legacy.called
    /\ \E a \in ValidArgs, td \in Densities, wl \in WaterLevels,
          cd \in Densities :
        \E res \in {LegacyOverlay(a, rng, td, wl, cd)} :
            /\ legacy' = [called |-> TRUE, args |-> a, tree_density |-> td,
                          water_level |-> wl, cloud_density |-> cd,
                          heights |-> res.heights, trees |-> res.trees,
                          ret |-> res.ret]
            /\ rng' = res.rng
            /\ UNCHANGED <<noise_table, last, feat, prev, since, uivars,
                           recvars>>

\* One landscape: generated from slider-range arguments, then overlaid.
GenerateValid == ~ last.called /\ Generate(ValidArgs)
AddFeaturesValid == AddFeatures(ValidDensities, ValidWaterLevels)
Next == GenerateValid \/ AddFeaturesValid
Spec == Init /\ [][Next]_vars

\* Any number of generations, each overlaid or not, over a noise function
\* with two values.
InitDet ==
    /\ noise_table \in [range(NumBuckets) -> {-100, 100}]
    /\ rng \in range(Len(DrawSeq))
    /\ last = NoCall
    /\ feat = NoFeat
    /\ prev = NoCall
    /\ since = 0
    /\ legacy = NoLegacy
    /\ InitRest
GenerateDet == Generate(DetArgs)
AddFeaturesDet == AddFeatures({50}, {30})
NextDet == GenerateDet \/ AddFeaturesDet \/ Remember
SpecDet == InitDet /\ [][NextDet]_vars

\* One landscape of the program and one of the earlier draft, each
\* generated and overlaid once.
GenerateOverlay == ~ last.called /\ ~ legacy.called /\ Generate(ValidArgs)
AddFeaturesOverlay == AddFeatures({50}, ValidWaterLevels)
LegacyGenerateOverlay ==
    ~ last.called /\ LegacyGenerate({50}, ValidWaterLevels)
NextOverlay == GenerateOverlay \/ AddFeaturesOverlay \/ LegacyGenerateOverlay
SpecOverlay == Init /\ [][NextOverlay]_vars

\* One landscape at the smallest scale of the slider and the default number
\* of octaves, overlaid with every density and water level:
\* add_biome_features reads the biome and the height of a cell, which the
\* noise table, the sea level and the biome scale already vary.
FeatureArgs == {a \in ValidArgs : a.scale = 10 /\ a.octaves = 6}
GenerateFeatures == ~ last.called /\ Generate(FeatureArgs)
AddFeaturesAll == AddFeatures(ValidDensities, ValidWaterLevels)
NextFeatures == GenerateFeatures \/ AddFeaturesAll
SpecFeatures == Init /\ [][NextFeatures]_vars

\* One landscape, from arguments a direct caller may pass.
GenerateRaw == ~ last.called /\ Generate(RawArgs)
AddFeaturesRaw == AddFeatures(RawDensities, ValidWaterLevels)
NextRaw == GenerateRaw \/ AddFeaturesRaw
SpecRaw == Init /\ [][NextRaw]_vars

(* ------------------------- the event handlers ------------------------- *)

\* An exception that leaves a handler uncaught ends the application.
Alive == done.err # "none" => done.caught

\* The innermost handler entered and not yet returned.
Top == stack[Len(stack)]

\* The event loop of the application runs and the window takes input: no
\* handler is running and no message box is open.
Idle == Alive /\ stack = <<>>

\* Some event loop runs, that of the application or that of an open message
\* box: a timer event can be delivered.
MutDispatching == Alive
Dispatching == Alive /\ (stack # <<>> => Top.at = "dialog")

\* The try block of handler is about to run.
Running(handler) ==
    Alive /\ stack # <<>> /\ Top = Frame(handler, "try")

\* The stack once the try block of the innermost handler is over: the
\* handler returns, or its except block opens a message box.
Leave(dialog) ==
    IF dialog
    THEN [stack EXCEPT ![Len(stack)].at = "dialog"]
    ELSE SubSeq(stack, 1, Len(stack) - 1)

\* The Generate button is pressed: generate_and_display is entered.
PressGenerate ==
    /\ Idle
    /\ window.calls < MaxCalls
    /\ stack' = Append(stack, Frame("generate_and_display", "try"))
    /\ UNCHANGED <<noise_table, rng, last, feat, prev, since, legacy, widget,
                   window, done, recvars>>

\* A parameter slider is moved to a new value: update_parameters reads the
\* sliders and enters generate_and_display.
MoveSlider ==
    /\ Idle
    /\ window.calls < MaxCalls
    /\ \E m \in SliderMoves :
        /\ window.sliders[m[1]] # m[2]
        /\ window' = update_parameters(
                         [window EXCEPT !.sliders[m[1]] = m[2]])
    /\ stack' = Append(stack, Frame("generate_and_display", "try"))
    /\ UNCHANGED <<noise_table, rng, last, feat, prev, since, legacy, widget,
                   done, recvars>>

\* The try block of generate_and_display, and its except block up to the
\* message box.
GenerateAndDisplay ==
    /\ Running("generate_and_display")
    /\ \E l \in {Landscape(window, WindowArgs(window, window.scale, 1),
                             rng)} :
        \E res \in {Display(window, widget, l)} :
            /\ widget' = res.widget
            /\ rng' = l.rng
            /\ stack' = Leave(res.err # "none")
            /\ done' = [handler |-> "generate_and_display",
                        err |-> res.err, caught |-> TRUE,
                        before |-> widget.landscape,
                        args |-> Some(WindowArgs(window, window.scale, 1)),
                        writes |-> l.writes, tick |-> 0,
                        pan |-> widget.pan_offset, held |-> widget.held]
    /\ window' = [window EXCEPT !.calls = @ + 1]
    /\ UNCHANGED <<noise_table, last, feat, prev, since, legacy, recvars>>

\* The Animate button is pressed: toggle_animation.
PressAnimate ==
    /\ Idle
    /\ window' = toggle_animation(window)
    /\ UNCHANGED <<noise_table, rng, last, feat, prev, since, legacy, widget,
                   stack, done, recvars>>

\* The timer fires: animate_landscape is entered.
Tick ==
    /\ Dispatching
    /\ window.timer_active
    /\ window.calls < MaxCalls
    /\ stack' = Append(stack, Frame("animate_landscape", "try"))
    /\ window' = [window EXCEPT !.ticks = @ + 1]
    /\ UNCHANGED <<noise_table, rng, last, feat, prev, since, legacy, widget,
                   done, recvars>>

\* The try block of animate_landscape, with scale 10.0 + step * 0.5, and
\* its except block up to the message box.
AnimateLandscape ==
    /\ Running("animate_landscape")
    /\ LET step == window.animation_step + 1
           win  == [window EXCEPT !.animation_step = step]
       IN  \E l \in {Landscape(win, WindowArgs(win, 20 + step, 2), rng)} :
           \E res \in {Display(win, widget, l)} :
            /\ widget' = res.widget
            /\ rng' = l.rng
            /\ stack' = Leave(res.err # "none")
            /\ done' = [handler |-> "animate_landscape", err |-> res.err,
                        caught |-> TRUE, before |-> widget.landscape,
                        args |-> Some(WindowArgs(win, 20 + step, 2)),
                        writes |-> l.writes, tick |-> window.ticks,
                        pan |-> widget.pan_offset, held |-> widget.held]
            /\ window' = IF res.err = "none"
                         THEN [win EXCEPT !.calls = @ + 1]
                         ELSE StopAnimation([win EXCEPT !.calls = @ + 1])
    /\ UNCHANGED <<noise_table, last, feat, prev, since, legacy, recvars>>

\* The speed slider is moved to a new value: update_animation_speed.
MoveSpeedSlider ==
    /\ Idle
    /\ \E value \in SpeedValues :
        /\ value # window.animation_speed
        /\ window' = update_animation_speed(window, value)
    /\ UNCHANGED <<noise_table, rng, last, feat, prev, since, legacy, widget,
                   stack, done, recvars>>

\* The Create World button is pressed: create_and_log_world is entered.
PressCreateWorld ==
    /\ Idle
    /\ window.calls < MaxCalls
    /\ stack' = Append(stack, Frame("create_and_log_world", "try"))
    /\ UNCHANGED <<noise_table, rng, last, feat, prev, since, legacy, widget,
                   window, done, recvars>>

\* The try block of create_and_log_world up to its message box, that of
\* success or that of the except block.
CreateAndLogWorld ==
    /\ Running("create_and_log_world")
    /\ \E l \in {Landscape(window, WindowArgs(window, window.scale, 1),
                             rng)} :
        \E res \in {WorldOf(l)} :
            /\ rng' = l.rng
            /\ mat' = [called |-> res.grid # <<>>, grid |-> res.grid,
                       keys |-> res.biomes.keys,
                       positions |-> res.biomes.positions,
                       ret |-> res.biomes.ret, err |-> res.biomes.err,
                       name |-> res.biomes.name, world |-> res.world]
            /\ done' = [handler |-> "create_and_log_world",
                        err |-> res.err, caught |-> TRUE,
                        before |-> widget.landscape,
                        args |-> Some(WindowArgs(window, window.scale, 1)),
                        writes |-> l.writes, tick |-> 0,
                        pan |-> widget.pan_offset, held |-> widget.held]
    /\ stack' = Leave(TRUE)
    /\ window' = [window EXCEPT !.calls = @ + 1]
    /\ UNCHANGED <<noise_table, last, feat, prev, since, legacy, widget, rec,
                   world>>

\* The message box of the innermost handler is closed: the handler returns.
Dismiss ==
    /\ Alive
    /\ stack # <<>>
    /\ Top.at = "dialog"
    /\ stack' = Leave(FALSE)
    /\ UNCHANGED <<noise_table, rng, last, feat, prev, since, legacy, widget,
                   window, done, recvars>>

\* Positions of the mouse, along the top row of the widget: inside the
\* grid, and beyond its last cell.
MousePoints == {<<0, 0>>, <<1, 0>>, <<3 * MaxDim, 0>>}

\* The record of a mouse handler of the widget: nothing catches what it
\* raises.
MouseDone(handler, err) ==
    [handler |-> handler, err |-> err, caught |-> FALSE,
     before |-> widget.landscape, args |-> None, writes |-> <<>>,
     tick |-> 0, pan |-> widget.pan_offset, held |-> widget.held]

\* A mouse button is pressed on the widget.
MousePress ==
    /\ Idle
    /\ \E pos \in MousePoints :
        \E res \in {mousePressEvent(widget, pos)} :
            /\ widget' = res.widget
            /\ done' = MouseDone("mousePressEvent", res.err)
    /\ UNCHANGED <<noise_table, rng, last, feat, prev, since, legacy, window,
                   stack, recvars>>

\* The mouse moves over the widget, to a position that keeps the pan
\* offset within the reach of one drag.
MouseMove ==
    /\ Idle
    /\ \E pos \in MousePoints :
        \E res \in {mouseMoveEvent(widget, pos)} :
            /\ \A i \in 1 .. 2 :
                /\ res.widget.pan_offset[i] <= 3 * MaxDim
                /\ res.widget.pan_offset[i] >= -(3 * MaxDim)
            /\ widget' = res.widget
            /\ done' = MouseDone("mouseMoveEvent", res.err)
    /\ UNCHANGED <<noise_table, rng, last, feat, prev, since, legacy, window,
                   stack, recvars>>

\* The mouse button is released.
MouseRelease ==
    /\ Idle
    /\ widget.last_mouse_pos # None
    /\ widget' = mouseReleaseEvent(widget)
    /\ done' = MouseDone("mouseReleaseEvent", "none")
    /\ UNCHANGED <<noise_table, rng, last, feat, prev, since, legacy, window,
                   stack, recvars>>

\* The wheel is turned over the widget, forward or backward.
Wheel ==
    /\ Idle
    /\ \E zoom_in \in BOOLEAN :
        \E res \in {wheelEvent(widget, zoom_in)} :
            /\ widget' = res.widget
            /\ done' = MouseDone("wheelEvent", res.err)
    /\ UNCHANGED <<noise_table, rng, last, feat, prev, since, legacy, window,
                   stack, recvars>>

\* The Reset View button is pressed: reset_view of the widget.
ResetView ==
    /\ Idle
    /\ \E res \in {reset_view(widget)} :
        /\ widget' = res.widget
        /\ done' = MouseDone("reset_view", res.err)
    /\ UNCHANGED <<noise_table, rng, last, feat, prev, since, legacy, window,
                   stack, recvars>>

\* create_biomes_from_landscape on the landscape add_biome_features
\* returned.
Materialize ==
    /\ feat.called
    /\ feat.err = "none"
    /\ ~ mat.called
    /\ \E res \in {create_biomes_from_landscape(feat.ret)} :
        mat' = [called |-> TRUE, grid |-> feat.ret, keys |-> res.keys,
                positions |-> res.positions, ret |-> res.ret,
                err |-> res.err, name |-> res.name, world |-> None]
    /\ UNCHANGED <<noise_table, rng, last, feat, prev, since, legacy, uivars,
                   rec, world>>

\* Arguments a caller may pass to the constructors, invalid ones included.
\* Each run makes one such call.
RawCoords == {-1, 0, 1}
RawHealths == {-1, 0, 10}
RawNames == {"", "My Awesome World"}
RawBiomes == {<<>>, <<PlainsBiome>>, <<PlainsBiome, None>>}
RawTimes == {-1, 0, MaxTime, MaxTime + 1}
RawWeathers == Weathers \cup {"snow"}

\* A call of create_block.
CreateBlock ==
    /\ rec.op = "none"
    /\ \E x \in RawCoords, y \in RawCoords, z \in RawCoords :
        \E res \in {create_block(x, y, z, "grass")} :
            rec' = [op |-> "create_block", args |-> <<x, y, z, "grass">>,
                    ret |-> res.ret, err |-> res.err]
    /\ UNCHANGED <<noise_table, rng, last, feat, prev, since, legacy, uivars,
                   mat, world>>

\* A call of create_entity.
CreateEntity ==
    /\ rec.op = "none"
    /\ \E x \in RawCoords, y \in RawCoords, z \in RawCoords,
          health \in RawHealths :
        \E res \in {create_entity(x, y, z, "sheep", health)} :
            rec' = [op |-> "create_entity",
                    args |-> <<x, y, z, "sheep", health>>,
                    ret |-> res.ret, err |-> res.err]
    /\ UNCHANGED <<noise_table, rng, last, feat, prev, since, legacy, uivars,
                   mat, world>>

\* A construction of a World.
ConstructWorld ==
    /\ rec.op = "none"
    /\ \E name \in RawNames, biomes \in RawBiomes, time \in RawTimes,
          weather \in RawWeathers :
        \E res \in {World(name, biomes, time, weather)} :
            rec' = [op |-> "World", args |-> <<name, biomes, time, weather>>,
                    ret |-> res.value, err |-> res.err]
    /\ UNCHANGED <<noise_table, rng, last, feat, prev, since, legacy, uivars,
                   mat, world>>

\* The next statement of create_and_log_world of the draft.
DraftCreateAndLogWorld ==
    /\ world' = DraftStatement(world)
    /\ UNCHANGED <<noise_table, rng, last, feat, prev, since, legacy, uivars,
                   mat, rec>>

\* The window and its widget: buttons, sliders and the timer, over a noise
\* function with two values.
InitUI ==
    /\ noise_table \in [range(NumBuckets) -> {-100, 100}]
    /\ rng \in range(Len(DrawSeq))
    /\ last = NoCall
    /\ feat = NoFeat
    /\ prev = NoCall
    /\ since = 0
    /\ legacy = NoLegacy
    /\ InitWindow(Dims, Dims)
    /\ InitRecords
NextUI ==
    \/ GenerateAndDisplay
    \/ PressGenerate
    \/ MoveSlider
    \/ PressAnimate
    \/ Tick
    \/ AnimateLandscape
    \/ PressCreateWorld
    \/ CreateAndLogWorld
    \/ Dismiss
SpecUI == InitUI /\ [][NextUI]_vars

\* The three handlers that generate a landscape, on their buttons and on
\* the timer, with the parameters the window starts with.
NextHandlers ==
    \/ GenerateAndDisplay
    \/ PressGenerate
    \/ PressAnimate
    \/ Tick
    \/ AnimateLandscape
    \/ PressCreateWorld
    \/ CreateAndLogWorld
    \/ Dismiss
SpecHandlers == InitUI /\ [][NextHandlers]_vars

\* The animation: the Animate button, the speed slider and the timer,
\* with generations on the Generate button in between.
NextAnim ==
    \/ GenerateAndDisplay
    \/ PressGenerate
    \/ PressAnimate
    \/ MoveSpeedSlider
    \/ Tick
    \/ AnimateLandscape
    \/ Dismiss
SpecAnim == InitUI /\ [][NextAnim]_vars

\* The widget under the mouse, between generations, from one state of the
\* random generator.
InitMouse ==
    /\ noise_table \in [range(NumBuckets) -> {-100, 100}]
    /\ rng = 0
    /\ last = NoCall
    /\ feat = NoFeat
    /\ prev = NoCall
    /\ since = 0
    /\ legacy = NoLegacy
    /\ InitWindow(Dims, Dims)
    /\ InitRecords
NextMouse ==
    \/ GenerateAndDisplay
    \/ PressGenerate
    \/ Dismiss
    \/ MousePress
    \/ MouseMove
    \/ MouseRelease
SpecMouse == InitMouse /\ [][NextMouse]_vars

\* The view of the widget: wheel, Reset View button and mouse over the
\* landscape of the first generation, one row of cells from one noise
\* function.
InitView ==
    /\ noise_table = [b \in range(NumBuckets) |-> 100]
    /\ rng = 0
    /\ last = NoCall
    /\ feat = NoFeat
    /\ prev = NoCall
    /\ since = 0
    /\ legacy = NoLegacy
    /\ InitWindow(Dims, {1})
    /\ InitRecords
NextView ==
    \/ GenerateAndDisplay
    \/ MousePress
    \/ MouseMove
    \/ MouseRelease
    \/ Wheel
    \/ ResetView
SpecView == InitView /\ [][NextView]_vars

\* One landscape, generated, overlaid and turned into biomes.
GenerateWorld == ~ last.called /\ Generate(WorldArgs)
AddFeaturesWorld == AddFeatures({50}, {30})
NextWorld == GenerateWorld \/ AddFeaturesWorld \/ Materialize
SpecWorld == Init /\ [][NextWorld]_vars

\* Two generations that may differ in the elevation parameters, the
\* first one remembered, over a noise function with three values.
SelArgs ==
    [width : Dims, height : Dims, scale : {10, 25}, scale_den : {1},
     octaves : {1, 6}, persistence : {50}, lacunarity : {200},
     sea_level : {30}, biome_scale : {50, 125}]
InitSel ==
    /\ noise_table \in [range(NumBuckets) -> {-100, 20, 100}]
    /\ rng = 0
    /\ last = NoCall
    /\ feat = NoFeat
    /\ prev = NoCall
    /\ since = 0
    /\ legacy = NoLegacy
    /\ InitRest
GenerateSel == since = 0 /\ Generate(SelArgs)
NextSel == GenerateSel \/ Remember
SpecSel == InitSel /\ [][NextSel]_vars

\* The constructors of the records and the draft's create_and_log_world.
NextRecords ==
    \/ CreateBlock
    \/ CreateEntity
    \/ ConstructWorld
    \/ DraftCreateAndLogWorld
SpecRecords == InitDet /\ [][NextRecords]_vars

(* ------------------------------- claims ------------------------------- *)

\* The cell of grid g at index c = <<x, y>>.
CellAt(g, c) == g[c[2] + 1][c[1] + 1]

\* generate_advanced_landscape has returned a grid.
Generated == last.called /\ last.err = "none"

\* add_biome_features has returned the overlaid grid.
Overlaid == feat.called /\ feat.err = "none"

\* C1: in the grid generate_advanced_landscape returns, every cell whose
\* elevation is below sea level is OCEAN whatever its biome-selector value,
\* and a cell whose elevation equals sea level is not OCEAN.
C1_OceanBelowSeaLevel ==
    Generated =>
        \A c \in GridCells(last.ret) :
            LET cell == CellAt(last.ret, c)
            IN  /\ cell.height < last.args.sea_level => cell.biome = "ocean"
                /\ cell.height = last.args.sea_level => cell.biome # "ocean"

C1_Witness ==
    /\ Generated
    /\ \E c \in GridCells(last.ret) :
        /\ CellAt(last.ret, c).height < last.args.sea_level
        /\ CellAt(last.bmap, c) < DesertBelow
        /\ CellAt(last.ret, c).biome = "ocean"
    /\ \E c \in GridCells(last.ret) :
        /\ CellAt(last.ret, c).height = last.args.sea_level
        /\ CellAt(last.ret, c).biome # "ocean"

\* C2: every cell whose elevation is at least sea level has the biome its
\* biome-selector value v alone decides: DESERT for v < 0.3, PLAINS for
\* 0.3 <= v < 0.6, FOREST for 0.6 <= v < 0.8, MOUNTAIN for v >= 0.8.
C2_BandsAboveSeaLevel ==
    Generated =>
        \A c \in GridCells(last.ret) :
            LET cell == CellAt(last.ret, c)
                v    == CellAt(last.bmap, c)
            IN  cell.height >= last.args.sea_level =>
                    /\ v < 30 => cell.biome = "desert"
                    /\ 30 <= v /\ v < 60 => cell.biome = "plains"
                    /\ 60 <= v /\ v < 80 => cell.biome = "forest"
                    /\ 80 <= v => cell.biome = "mountain"

C2_Witness ==
    /\ Generated
    /\ \E c \in GridCells(last.ret) :
        /\ CellAt(last.ret, c).height >= last.args.sea_level
        /\ CellAt(last.bmap, c) = 60
        /\ CellAt(last.ret, c).biome = "forest"
    /\ \E c \in GridCells(last.ret) :
        /\ CellAt(last.ret, c).height >= last.args.sea_level
        /\ CellAt(last.bmap, c) = 80
        /\ CellAt(last.ret, c).biome = "mountain"

\* C3: every stored elevation lies in [0,1], in the grid
\* generate_advanced_landscape returns and in the grid add_biome_features
\* returns.
C3_ElevationInUnitInterval ==
    /\ Generated =>
        \A c \in GridCells(last.ret) :
            0 <= CellAt(last.ret, c).height
            /\ CellAt(last.ret, c).height <= One
    /\ Overlaid =>
        \A c \in GridCells(feat.ret) :
            0 <= CellAt(feat.ret, c).height
            /\ CellAt(feat.ret, c).height <= One

C3_Witness ==
    /\ Overlaid
    /\ \E c \in GridCells(feat.ret) : CellAt(feat.ret, c).height = One
    /\ \E c \in GridCells(feat.ret) : CellAt(feat.ret, c).height = 0

\* What the rules of the overlay say of the cell visited at step st: the
\* tree rule matches, the water rule matches, the cloud draw is below the
\* cloud density.  The tree draw of a FOREST cell is the first value drawn
\* for it; the cloud draw is the next value drawn for it.
TreeMatches(st) ==
    /\ CellAt(last.ret, st.cell).biome = "forest"
    /\ DrawSeq[st.at + 1] < feat.tree_density
WaterMatches(st) ==
    CellAt(last.ret, st.cell).height <= feat.water_level
CloudMatches(st) ==
    LET at == IF CellAt(last.ret, st.cell).biome = "forest"
              THEN (st.at + 1) % Len(DrawSeq) ELSE st.at
    IN  DrawSeq[at + 1] < feat.cloud_density

\* C4: after add_biome_features no cell carries more than one of tree,
\* water and cloud: each visited cell was assigned at most one feature and
\* holds that feature or none.
C4_AtMostOneFeature ==
    Overlaid =>
        \A i \in DOMAIN feat.steps :
            LET st == feat.steps[i]
                f  == CellAt(feat.ret, st.cell).feature
            IN  /\ Len(st.writes) <= 1
                /\ f \in {"none", "tree", "water", "cloud"}
                /\ f = "none" <=> st.writes = <<>>

C4_Witness ==
    /\ Overlaid
    /\ \E i \in DOMAIN feat.steps :
        /\ TreeMatches(feat.steps[i])
        /\ WaterMatches(feat.steps[i])
        /\ CloudMatches(feat.steps[i])
        /\ Len(feat.steps[i].writes) = 1

\* C5: the overlay checks tree, then water, then cloud, and the first match
\* wins: a cell the tree rule matches gets tree even if the water rule
\* matches too; a cell that did not get tree and whose elevation is at
\* most the water level gets water; a cell gets cloud only if neither the
\* tree nor the water rule matched and its cloud draw is below the cloud
\* density.
C5_FirstMatchWins ==
    Overlaid =>
        \A i \in DOMAIN feat.steps :
            LET st == feat.steps[i]
                f  == CellAt(feat.ret, st.cell).feature
            IN  /\ TreeMatches(st) => f = "tree"
                /\ f # "tree" /\ WaterMatches(st) => f = "water"
                /\ f = "cloud" =>
                       ~ TreeMatches(st) /\ ~ WaterMatches(st)
                       /\ CloudMatches(st)

C5_Witness ==
    /\ Overlaid
    /\ \E i \in DOMAIN feat.steps :
        /\ TreeMatches(feat.steps[i])
        /\ WaterMatches(feat.steps[i])
        /\ CellAt(feat.ret, feat.steps[i].cell).feature = "tree"
    /\ \E i \in DOMAIN feat.steps :
        /\ ~ TreeMatches(feat.steps[i])
        /\ ~ WaterMatches(feat.steps[i])
        /\ CellAt(feat.ret, feat.steps[i].cell).feature = "cloud"

\* C6 as claimed: the water and cloud rules override tree, so a cell that
\* was assigned tree and that the water rule matches too ends the overlay
\* with water or cloud, in add_biome_features and in the earlier draft's
\* add_trees / add_water / add_clouds.
C6_WaterCloudOverrideTree ==
    /\ Overlaid =>
        \A i \in DOMAIN feat.steps :
            TreeMatches(feat.steps[i]) /\ WaterMatches(feat.steps[i]) =>
                CellAt(feat.ret, feat.steps[i].cell).feature
                    \in {"water", "cloud"}
    /\ legacy.called =>
        \A c \in GridCells(legacy.ret) :
            /\ CellAt(legacy.trees, c) = TreeMark
            /\ CellAt(legacy.heights, c) <= legacy.water_level
            => CellAt(legacy.ret, c) \in {WaterMark, CloudMark}

\* C6 as amended: tree is never overridden.  A cell the tree rule matched
\* is assigned tree and nothing after it, and ends the overlay with tree,
\* whatever the water rule and the cloud draw say; in the earlier draft a
\* cell add_trees marked is still marked tree after add_water and
\* add_clouds.
C6_TreeNeverOverridden ==
    /\ Overlaid =>
        \A i \in DOMAIN feat.steps :
            \/ ~ TreeMatches(feat.steps[i])
            \/ /\ feat.steps[i].writes = <<"tree">>
               /\ CellAt(feat.ret, feat.steps[i].cell).feature
                      \notin {"water", "cloud"}
    /\ legacy.called =>
        \A c \in GridCells(legacy.ret) :
            CellAt(legacy.trees, c) = TreeMark =>
                CellAt(legacy.ret, c) = TreeMark

C6_Witness ==
    /\ Overlaid
    /\ \E i \in DOMAIN feat.steps :
        /\ TreeMatches(feat.steps[i])
        /\ WaterMatches(feat.steps[i])
        /\ CloudMatches(feat.steps[i])
        /\ feat.steps[i].writes = <<"tree">>

\* The same case in the earlier draft: a cell marked tree whose height is
\* at most the water level and whose cloud-map value passes the threshold.
C6_LegacyCase ==
    /\ legacy.called
    /\ \E c \in GridCells(legacy.ret) :
        /\ CellAt(legacy.trees, c) = TreeMark
        /\ CellAt(legacy.heights, c) <= legacy.water_level
        /\ CellAt(legacy.ret, c) = TreeMark

InBounds(a) ==
    {c \in (-1 .. MaxDim + 1) \X (-1 .. MaxDim + 1) :
        0 <= c[1] /\ c[1] < a.width /\ 0 <= c[2] /\ c[2] < a.height}
HasDimensions(g, a) ==
    /\ Len(g) = a.height
    /\ \A y \in DOMAIN g : Len(g[y]) = a.width

C8_DimensionsAndBounds ==
    /\ last.called =>
        /\ last.err = "none"
        /\ HasDimensions(last.ret, last.args)
        /\ last.touched \subseteq InBounds(last.args)
    /\ feat.called =>
        /\ feat.err = "none"
        /\ HasDimensions(feat.ret, last.args)
        /\ feat.touched \subseteq InBounds(last.args)

C8_Witness ==
    /\ Overlaid
    /\ last.args.width = MaxDim
    /\ last.args.height = 1
    /\ last.touched = InBounds(last.args)
    /\ feat.touched = InBounds(last.args)

\* C9: with tree density 0 and cloud density 0 no cell gets tree or cloud,
\* whatever is drawn, so every cell above the water level has no feature.
C9_ZeroDensitiesNoFeature ==
    Overlaid /\ feat.tree_density = 0 /\ feat.cloud_density = 0 =>
        \A c \in GridCells(feat.ret) :
            /\ CellAt(feat.ret, c).feature \notin {"tree", "cloud"}
            /\ CellAt(feat.ret, c).height > feat.water_level =>
                   CellAt(feat.ret, c).feature = "none"

C9_Witness ==
    /\ Overlaid
    /\ feat.tree_density = 0
    /\ feat.cloud_density = 0
    /\ \E i \in DOMAIN feat.steps :
        /\ CellAt(last.ret, feat.steps[i].cell).biome = "forest"
        /\ DrawSeq[feat.steps[i].at + 1] = 0
        /\ ~ WaterMatches(feat.steps[i])
        /\ CellAt(feat.ret, feat.steps[i].cell).feature = "none"
    /\ \E i \in DOMAIN feat.steps :
        /\ CellAt(last.ret, feat.steps[i].cell).biome # "forest"
        /\ DrawSeq[feat.steps[i].at + 1] = 0
        /\ ~ WaterMatches(feat.steps[i])
        /\ CellAt(feat.ret, feat.steps[i].cell).feature = "none"

\* C10: malformed parameters are rejected before generation starts.  A call
\* of generate_advanced_landscape with width <= 0, height <= 0, scale <= 0
\* or biome_scale <= 0 raises an invalid-parameter error, samples no cell
\* and returns no grid; a call of add_biome_features with a density
\* outside [0,1] raises an invalid-parameter error and returns no grid.
MalformedArgs(a) ==
    a.width <= 0 \/ a.height <= 0 \/ a.scale <= 0 \/ a.biome_scale <= 0
MalformedDensity(d) == d < 0 \/ d > One

C10_MalformedRejected ==
    /\ last.called /\ MalformedArgs(last.args) =>
        /\ last.err = "InvalidParameter"
        /\ last.samples = 0
        /\ last.ret = <<>>
    /\ feat.called
       /\ (MalformedDensity(feat.tree_density)
           \/ MalformedDensity(feat.cloud_density)) =>
        /\ feat.err = "InvalidParameter"
        /\ feat.ret = <<>>

\* C11: when generate_and_display or animate_landscape has raised an
\* exception, the exception was caught and the widget's landscape is the
\* grid it held before the call: a grid is installed whole or not at all.
C11_FailedCallKeepsLandscape ==
    done.handler \in {"generate_and_display", "animate_landscape"}
    /\ done.err # "none"
        => done.caught /\ widget.landscape = done.before

\* The biome labels present in grid g.
LabelsIn(g) == {CellAt(g, c).biome : c \in GridCells(g)}

\* C12: create_biomes_from_landscape returns exactly one biome record per
\* distinct biome label of the grid: as many records as labels, no label
\* twice, no record for a label the grid does not have.
C12_OneBiomePerLabel ==
    mat.called =>
        /\ mat.err = "none"
        /\ Len(mat.ret) = Cardinality(LabelsIn(mat.grid))
        /\ \A i, j \in DOMAIN mat.ret :
            mat.ret[i].type = mat.ret[j].type => i = j
        /\ \A i \in DOMAIN mat.ret : mat.ret[i].type \in LabelsIn(mat.grid)

\* C13: for a grid with exactly two distinct biome labels,
\* create_biomes_from_landscape returns exactly two biome records, and the
\* blocks and entities of each lie on all and only the cells of its label.
C13_TwoLabelsTwoRecords ==
    mat.called /\ Cardinality(LabelsIn(mat.grid)) = 2 =>
        /\ mat.err = "none"
        /\ Len(mat.ret) = 2
        /\ \A i \in DOMAIN mat.ret :
            LET b == mat.ret[i]
            IN  /\ \A k \in DOMAIN b.blocks :
                    CellAt(mat.grid, <<b.blocks[k].x, b.blocks[k].y>>).biome
                        = b.type
                /\ \A k \in DOMAIN b.entities :
                    CellAt(mat.grid,
                           <<b.entities[k].x, b.entities[k].y>>).biome
                        = b.type
                /\ \A c \in GridCells(mat.grid) :
                    CellAt(mat.grid, c).biome = b.type =>
                        \E k \in DOMAIN b.blocks :
                            <<b.blocks[k].x, b.blocks[k].y>> = c

\* C14: create_and_log_world builds a well-formed World, whatever the
\* spawn draws and the biome labels of the grid: its list of biomes is not
\* empty, and every biome has a name, blocks and entities.
C14_WellFormedWorld ==
    done.handler = "create_and_log_world" =>
        /\ done.err = "none"
        /\ mat.world # None
        /\ mat.world[1].biomes # <<>>
        /\ \A i \in DOMAIN mat.world[1].biomes :
            LET b == mat.world[1].biomes[i]
            IN  b # None /\ b[1].name # "" /\ b[1].blocks # <<>>
                /\ b[1].entities # <<>>

\* C15: generations never overlap, however timer ticks, slider moves and
\* button presses interleave: at most one handler is inside its try block,
\* every other handler entered waits in its message box beneath it, and
\* at most one call of animate_landscape is entered at a time.
C15_GenerationsNeverOverlap ==
    /\ \A i \in DOMAIN stack : stack[i].at = "try" => i = Len(stack)
    /\ \A i, j \in DOMAIN stack :
        stack[i].handler = "animate_landscape"
        /\ stack[j].handler = "animate_landscape" => i = j

\* A tick has completed, and the next one is delivered while the message
\* box of create_and_log_world is open.
C15_Witness ==
    /\ done.handler = "animate_landscape"
    /\ done.err = "none"
    /\ stack = <<Frame("create_and_log_world", "dialog"),
                 Frame("animate_landscape", "try")>>

\* C16: once set_landscape has installed a grid, every grid-derived field
\* of the widget refers to that grid: hover_info is a cell of it, and
\* selected_block and biome_info were read off it.
C16_NoPastGridHeld ==
    widget.landscape # None =>
        /\ widget.hover_info # None =>
            widget.hover_info[1].of = widget.landscape[1].id
        /\ widget.selected_block # None =>
            widget.selected_block[1].of = widget.landscape[1].id
        /\ widget.biome_info # None =>
            widget.biome_info[1].of = widget.landscape[1].id

\* C17: the biome-selector field does not depend on the elevation
\* parameters.  Two generations with the same width, height, sea level and
\* biome scale, whatever their scale, octaves, persistence and lacunarity,
\* give every cell that is not OCEAN in both grids the same biome.
SameSelectorArgs ==
    /\ prev.called /\ last.called
    /\ prev.err = "none" /\ last.err = "none"
    /\ prev.args.width = last.args.width
    /\ prev.args.height = last.args.height
    /\ prev.args.sea_level = last.args.sea_level
    /\ prev.args.biome_scale = last.args.biome_scale
C17_SelectorIgnoresElevationParameters ==
    SameSelectorArgs =>
        \A c \in GridCells(last.ret) :
            (CellAt(prev.ret, c).biome # "ocean"
             /\ CellAt(last.ret, c).biome # "ocean")
                => CellAt(prev.ret, c).biome = CellAt(last.ret, c).biome

\* Two such generations differ in scale and octaves and in an elevation,
\* and a cell that is land in both has the same biome in both.
C17_Witness ==
    /\ SameSelectorArgs
    /\ since = 1
    /\ prev.args.scale # last.args.scale
    /\ prev.args.octaves # last.args.octaves
    /\ \E c \in GridCells(last.ret) :
        CellAt(prev.ret, c).height # CellAt(last.ret, c).height
    /\ \E c \in GridCells(last.ret) :
        /\ CellAt(prev.ret, c).biome = "forest"
        /\ CellAt(last.ret, c).biome = "forest"

\* C18: after add_biome_features on a generated grid, a cell has the
\* feature tree only if its biome is FOREST, and a cell of any other biome
\* whose elevation is at most the water level has the feature water,
\* whatever the tree density and the next random draw.
C18_TreeOnlyInForest ==
    Overlaid =>
        \A c \in GridCells(feat.ret) :
            /\ CellAt(feat.ret, c).feature = "tree" =>
                CellAt(last.ret, c).biome = "forest"
            /\ (CellAt(last.ret, c).biome # "forest"
                /\ CellAt(last.ret, c).height <= feat.water_level)
                    => CellAt(feat.ret, c).feature = "water"

\* A cell that is not FOREST and not above the water level is visited when
\* the next draw is below the tree density, and gets water; a FOREST cell
\* of the same grid gets a tree.
C18_Witness ==
    /\ Overlaid
    /\ \E i \in DOMAIN feat.steps :
        LET st == feat.steps[i]
        IN  /\ CellAt(last.ret, st.cell).biome # "forest"
            /\ CellAt(last.ret, st.cell).height <= feat.water_level
            /\ DrawSeq[st.at + 1] < feat.tree_density
            /\ CellAt(feat.ret, st.cell).feature = "water"
    /\ \E c \in GridCells(feat.ret) :
        /\ CellAt(last.ret, c).biome = "forest"
        /\ CellAt(feat.ret, c).feature = "tree"

\* C19: create_block and create_entity never raise.  They return None when
\* x, y or z is negative (for create_entity also when health is negative)
\* and otherwise a record with the fields of the arguments, so every Block
\* and Entity has non-negative coordinates and every Entity non-negative
\* health.
C19_HelpersReturnNoneOnInvalid ==
    /\ rec.op = "create_block" =>
        /\ rec.err = "none"
        /\ rec.ret = IF \E i \in 1 .. 3 : rec.args[i] < 0
                     THEN None
                     ELSE Some([x |-> rec.args[1], y |-> rec.args[2],
                                z |-> rec.args[3], type |-> rec.args[4]])
    /\ rec.op = "create_entity" =>
        /\ rec.err = "none"
        /\ rec.ret = IF \E i \in {1, 2, 3, 5} : rec.args[i] < 0
                     THEN None
                     ELSE Some([x |-> rec.args[1], y |-> rec.args[2],
                                z |-> rec.args[3], type |-> rec.args[4],
                                health |-> rec.args[5]])
    /\ (rec.op \in {"create_block", "create_entity"} /\ rec.ret # None) =>
        rec.ret[1].x >= 0 /\ rec.ret[1].y >= 0 /\ rec.ret[1].z >= 0
    /\ (rec.op = "create_entity" /\ rec.ret # None) =>
        rec.ret[1].health >= 0

\* create_entity was called with valid coordinates and a negative health,
\* and returned None.
C19_Witness ==
    /\ rec.op = "create_entity"
    /\ \A i \in 1 .. 3 : rec.args[i] >= 0
    /\ rec.args[5] < 0
    /\ rec.ret = None
    /\ rec.err = "none"

\* The field constraints of a World.
WellFormedWorld(w) ==
    /\ w.name # ""
    /\ w.biomes # <<>>
    /\ 0 <= w.time /\ w.time <= 24000
    /\ w.weather \in {"clear", "rain", "thunder"}

\* C20: every World that exists at a point of create_and_log_world, after
\* the assignments to time and weather too, has a non-empty name, a
\* non-empty list of biomes, a time in [0, 24000] and a weather among
\* clear, rain and thunder; the construction of a World returns such a
\* World, and fails with ValueError exactly when a field is outside these
\* constraints or a biome is missing.
C20_WorldsWellFormed ==
    /\ world.value # None => WellFormedWorld(world.value[1])
    /\ mat.world # None => WellFormedWorld(mat.world[1])
    /\ rec.op = "World" =>
        LET asked == [name |-> rec.args[1], biomes |-> rec.args[2],
                      time |-> rec.args[3], weather |-> rec.args[4]]
        IN  /\ rec.ret # None => rec.ret[1] = asked
            /\ rec.ret # None => rec.err = "none"
            /\ rec.ret = None => rec.err = "ValueError"
            /\ ~ WellFormedWorld(asked) => rec.ret = None

\* create_and_log_world of the draft has assigned the time and the weather
\* of its World of three biomes, and a World with a time past 24000 was
\* refused.
C20_Witness ==
    /\ world.pc = "logged"
    /\ world.value # None
    /\ world.value[1].time = NightTime
    /\ world.value[1].weather = NewWeather
    /\ Len(world.value[1].biomes) = 3
    /\ \A i \in 1 .. 3 : world.value[1].biomes[i] # None
    /\ rec.op = "World"
    /\ rec.args[1] # "" /\ rec.args[2] = <<PlainsBiome>>
    /\ rec.args[3] > MaxTime /\ rec.args[4] = "clear"
    /\ rec.ret = None

\* C21: every run of animate_landscape generates the whole landscape with
\* scale 10.0 + 0.5 * k, k the number of the timer tick since the animation
\* was last started: every cell of the landscape handed to the widget has
\* the height and the biome of that scale, the step counter equals the
\* number of ticks handled since the start, and a start resets it.
C21_TickScale ==
    /\ window.animation_step =
           IF Running("animate_landscape")
           THEN window.ticks - 1 ELSE window.ticks
    /\ done.handler = "animate_landscape" =>
        /\ done.tick >= 1
        /\ done.args # None
        /\ done.args[1] = WindowArgs(window, 20 + done.tick, 2)
        /\ widget.landscape # None
        /\ LET g == widget.landscape[1].grid
               a == done.args[1]
           IN  /\ GridCells(g) = LoopCells(window.width, window.height)
               /\ \A c \in GridCells(g) :
                   LET cell == CellAt(g, c)
                   IN  /\ cell.height = HeightAt(a, c[1], c[2])
                       /\ cell.biome =
                              Classify(cell.height,
                                       BiomeValueAt(a, c[1], c[2]),
                                       a.sea_level)

\* The second tick of an animation has run, with scale 11.0.
C21_Witness ==
    /\ done.handler = "animate_landscape"
    /\ done.err = "none"
    /\ done.tick = 2
    /\ done.args[1].scale = 22
    /\ done.args[1].scale_den = 2
    /\ window.animation_step = 2
    /\ window.animation_running

\* C22: in every run of generate_and_display, animate_landscape and
\* create_and_log_world, a feature is assigned to a cell only after every
\* cell of the grid has been assigned its height and its biome.
C22_OverlayAfterClassification ==
    done.handler \in {"generate_and_display", "animate_landscape",
                      "create_and_log_world"} =>
        LET ws    == done.writes
            cells == LoopCells(window.width, window.height)
        IN  \A i \in DOMAIN ws :
                ws[i].field = "feature" =>
                    \A c \in cells :
                        /\ \E j \in 1 .. (i - 1) :
                            ws[j] = [cell |-> c, field |-> "height"]
                        /\ \E j \in 1 .. (i - 1) :
                            ws[j] = [cell |-> c, field |-> "biome"]

\* create_and_log_world has run after a later generation than the first,
\* on a grid of several cells, and has assigned a feature.
C22_Witness ==
    /\ window.width * window.height > 1
    /\ done.handler = "create_and_log_world"
    /\ done.before # None
    /\ done.before[1].id > 1
    /\ \E i \in DOMAIN done.writes : done.writes[i].field = "feature"

\* C23: animation_running is true exactly when the timer is active, after
\* any toggles, ticks (returning or raising) and speed changes, and a call
\* of toggle_animation turns a running animation into a stopped one and a
\* stopped one into a running one.
C23_FlagIsTimerActive ==
    /\ window.animation_running = window.timer_active
    /\ toggle_animation(window).animation_running
           = ~ window.animation_running
    /\ toggle_animation(window).timer_active = ~ window.timer_active

\* A tick has raised while the speed slider was off its initial value, and
\* the animation has been started again since.
C23_Witness ==
    /\ done.handler = "animate_landscape"
    /\ done.err = "NameError"
    /\ window.animation_speed = 20
    /\ window.animation_running
    /\ window.timer_active
    /\ stack = <<>>

\* C24: a tick that raises stops the animation: while its message box is
\* open the timer is stopped and animation_running is false, the box is the
\* innermost thing open, and as long as the animation has not been started
\* again the timer stays stopped and no tick runs.
C24_FailedTickStops ==
    /\ \A i \in DOMAIN stack :
        stack[i] = Frame("animate_landscape", "dialog") =>
            /\ i = Len(stack)
            /\ ~ window.timer_active
            /\ ~ window.animation_running
    /\ (/\ done.handler = "animate_landscape"
        /\ done.err # "none"
        /\ ~ window.animation_running)
        => /\ ~ window.timer_active
           /\ ~ Running("animate_landscape")

\* The message box of a failed tick is open above the message box of a
\* failed generate_and_display.
C24_Witness ==
    /\ Len(stack) = 2
    /\ stack[1] = Frame("generate_and_display", "dialog")
    /\ stack[2] = Frame("animate_landscape", "dialog")
    /\ done.handler = "animate_landscape"
    /\ done.err = "NameError"

\* C25: while the animation runs, the interval of the timer is the current
\* animation_speed; a speed change leaves a stopped timer stopped, and the
\* next start takes the changed speed.
C25_IntervalIsSpeed ==
    /\ window.animation_running =>
           window.timer_interval = window.animation_speed
    /\ \A value \in SpeedValues :
        LET win == update_animation_speed(window, value)
        IN  /\ win.animation_speed = value
            /\ win.timer_active = window.timer_active
            /\ win.animation_running = window.animation_running
            /\ ~ window.animation_running =>
                /\ win.timer_interval = window.timer_interval
                /\ toggle_animation(win).timer_interval = value

\* The speed was changed and a tick has run at the changed interval.
C25_Witness ==
    /\ window.animation_running
    /\ window.animation_speed = 20
    /\ window.timer_interval = 20
    /\ done.handler = "animate_landscape"
    /\ done.err = "none"
    /\ stack = <<>>

\* C26: after any wheel events and reset_view calls zoom_level lies in
\* [0.2, 5.0]; a wheel event forward at 5.0 and one backward at 0.2 leave
\* it as it is.
C26_ZoomWithinLimits ==
    /\ MinZoom <= widget.zoom_level
    /\ widget.zoom_level <= MaxZoom
    /\ widget.zoom_level = MaxZoom =>
           wheelEvent(widget, TRUE).widget.zoom_level = MaxZoom
    /\ widget.zoom_level = MinZoom =>
           wheelEvent(widget, FALSE).widget.zoom_level = MinZoom

\* The wheel was turned backward down to 0.2 without an exception, over a
\* landscape dragged out of the widget.
C26_Witness ==
    /\ widget.zoom_level = MinZoom
    /\ widget.pan_offset # <<0, 0>>
    /\ widget.landscape # None
    /\ done.handler = "wheelEvent"
    /\ done.err = "none"

\* C27: reset_view, from any reachable state of the widget, leaves
\* zoom_level = 1.0 and pan_offset = (0, 0), leaves landscape,
\* selected_block and hover_info as they were, and a second call changes
\* nothing more.
C27_ResetViewRestoresDefault ==
    LET r == reset_view(widget)
    IN  /\ r.widget.zoom_level = DefaultZoom
        /\ r.widget.pan_offset = <<0, 0>>
        /\ r.widget.landscape = widget.landscape
        /\ r.widget.selected_block = widget.selected_block
        /\ r.widget.hover_info = widget.hover_info
        /\ reset_view(r.widget) = r
        /\ done.handler = "reset_view" =>
            /\ widget.zoom_level = DefaultZoom
            /\ widget.pan_offset = <<0, 0>>
            /\ reset_view(widget).widget = widget

\* reset_view has run on a widget with a selected block and a hovered cell.
C27_Witness ==
    /\ done.handler = "reset_view"
    /\ widget.selected_block # None
    /\ widget.hover_info # None
    /\ widget.last_mouse_pos = None

\* The pan offset after a drag from the last mouse position to pos.
Dragged(pos) ==
    <<widget.pan_offset[1] + pos[1] - widget.last_mouse_pos[1][1],
      widget.pan_offset[2] + pos[2] - widget.last_mouse_pos[1][2]>>

\* What C28 says of the handlers other than reset_view: a mouse move
\* changes pan_offset only while a button is held, and then by the
\* distance from the last mouse position; mouse moves with no button held,
\* presses, releases, wheel events and set_landscape leave it unchanged.
PanOnlyByDrag ==
    /\ widget.held = (widget.last_mouse_pos # None)
    /\ \A pos \in MousePoints :
        LET moved == mouseMoveEvent(widget, pos).widget
        IN  /\ moved.pan_offset # widget.pan_offset =>
                /\ widget.held
                /\ moved.pan_offset = Dragged(pos)
            /\ widget.landscape # None =>
                mousePressEvent(widget, pos).widget.pan_offset
                    = widget.pan_offset
    /\ mouseReleaseEvent(widget).pan_offset = widget.pan_offset
    /\ \A zoom_in \in BOOLEAN :
        wheelEvent(widget, zoom_in).widget.pan_offset = widget.pan_offset
    /\ widget.landscape # None =>
        set_landscape(widget, widget.landscape[1]).widget.pan_offset
            = widget.pan_offset

\* C28 as stated: pan_offset changes only while a drag is in progress, so
\* no handler but a mouse move with a button held changes it.
C28_PanOnlyWhileDragging ==
    /\ PanOnlyByDrag
    /\ reset_view(widget).widget.pan_offset = widget.pan_offset

\* C28, amended: pan_offset changes only by a mouse move while a button is
\* held, by the distance from the last mouse position, and by reset_view,
\* which sets it to (0, 0) whether a button is held or not.
C28_PanOnlyByDragOrReset ==
    /\ PanOnlyByDrag
    /\ reset_view(widget).widget.pan_offset = <<0, 0>>
    /\ done.handler \in {"mousePressEvent", "mouseReleaseEvent", "wheelEvent",
                         "generate_and_display"} =>
           done.pan = widget.pan_offset
    /\ (done.handler = "mouseMoveEvent" /\ done.pan # widget.pan_offset) =>
           done.held

\* A drag has moved the landscape and the button is released; a later move
\* of the mouse has left the pan offset alone.
C28_Witness ==
    /\ widget.pan_offset # <<0, 0>>
    /\ ~ widget.held
    /\ done.handler = "mouseMoveEvent"
    /\ done.pan = widget.pan_offset
    /\ widget.hover_info = None

\* The position p, in pixels along one axis, lies inside the drawn extent
\* of cell i: base_offset + i * block_size <= p < base_offset + (i + 1) *
\* block_size, with base in quarters of a pixel.
InsideBlock(p, base, i, zoom_level) ==
    /\ base + i * 2 * zoom_level <= 4 * p
    /\ 4 * p < base + (i + 1) * 2 * zoom_level

\* C29: a mouse press selects block (x, y) only if the press position lies
\* inside the drawn square of that block; a press left of or above the
\* drawn area of the grid sets selected_block to None; selected_block is
\* None or a cell of the grid.
C29_PressSelectsBlockUnderMouse ==
    (/\ done.handler = "mousePressEvent"
     /\ done.err = "none")
    => LET g    == widget.landscape[1].grid
           pos  == widget.last_mouse_pos[1]
           bx   == BaseOffset(widget.width, Len(g[1]), widget.zoom_level,
                              widget.pan_offset[1])
           by   == BaseOffset(widget.height, Len(g), widget.zoom_level,
                              widget.pan_offset[2])
           sel  == widget.selected_block
       IN  /\ sel # None =>
               /\ sel[1].at \in GridCells(g)
               /\ InsideBlock(pos[1], bx, sel[1].at[1], widget.zoom_level)
               /\ InsideBlock(pos[2], by, sel[1].at[2], widget.zoom_level)
           /\ (4 * pos[1] < bx \/ 4 * pos[2] < by) => sel = None

\* C30: add_biome_features changes nothing but the feature of a cell: the
\* landscape it returns has the cells of the landscape it was given, each
\* with the same height and the same biome, for every state of the random
\* generator and every tree density, water level and cloud density.
C30_OverlayKeepsHeightAndBiome ==
    (feat.called /\ feat.err = "none") =>
        /\ GridCells(feat.ret) = GridCells(last.ret)
        /\ \A c \in GridCells(last.ret) :
            /\ CellAt(feat.ret, c).height = CellAt(last.ret, c).height
            /\ CellAt(feat.ret, c).biome = CellAt(last.ret, c).biome

\* The overlay has assigned a tree, water and a cloud to cells of one
\* landscape.
C30_Witness ==
    /\ feat.called
    /\ feat.err = "none"
    /\ \A f \in {"tree", "water", "cloud"} :
        \E c \in GridCells(feat.ret) : CellAt(feat.ret, c).feature = f

====
